---- MODULE Spec2Model ----
(***************************************************************************)
(* A model of the tf2 upgrade-arbitrage program (src/arbitrage_upgrade.py, *)
(* src/backpack_classifieds.py): price parsing, currency conversion, the   *)
(* fetch_prices aggregation with its retry loop, and the upgrade evaluator *)
(* _analyze_upgrades_for_items.                                            *)
(*                                                                         *)
(* Numbers.  Python floats are modelled as exact rationals [n, d] in       *)
(* lowest terms with d > 0.  The value d = 0 stands for Python's None.     *)
(* The listing prices of the model are whole amounts and the exchange      *)
(* rates are whole numbers, so no value the code rounds lies exactly       *)
(* between two hundredths in a way binary floating point would decide      *)
(* differently from exact arithmetic.                                      *)
(*                                                                         *)
(* Strings.  A price text is a sequence of one-character strings; an item  *)
(* name is a sequence of words.                                            *)
(***************************************************************************)
EXTENDS Integers, Sequences, FiniteSets, TLC

\* ------------------------------------------------------------------------
\* Rational arithmetic (Python float arithmetic on the model's values)
\* ------------------------------------------------------------------------

Abs(x) == IF x < 0 THEN -x ELSE x

RECURSIVE Gcd(_, _)
Gcd(a, b) == IF b = 0 THEN a ELSE Gcd(b, a % b)

None == [n |-> 0, d |-> 0]

IsNone(x) == x.d = 0

Rat(n, d) ==
    LET g == Gcd(Abs(n), Abs(d))
        s == IF d < 0 THEN -1 ELSE 1
    IN  [n |-> s * (n \div g), d |-> s * (d \div g)]

Int2Rat(i) == [n |-> i, d |-> 1]

Zero == Int2Rat(0)

RAdd(a, b) == Rat(a.n * b.d + b.n * a.d, a.d * b.d)

RNeg(a) == [n |-> -a.n, d |-> a.d]

RSub(a, b) == RAdd(a, RNeg(b))

RMul(a, b) == Rat(a.n * b.n, a.d * b.d)

\* b is not zero
RDiv(a, b) == Rat(a.n * b.d, a.d * b.n)

RLt(a, b) == a.n * b.d < b.n * a.d

RLe(a, b) == a.n * b.d <= b.n * a.d

\* Python's bool(x) of a float or None: None and 0.0 are falsy
Truthy(x) == ~IsNone(x) /\ x.n # 0

\* Python's `a or b`
Or(a, b) == IF Truthy(a) THEN a ELSE b

\* round(x, 2): the nearest hundredth, a tie going to the even hundredth
Round2(x) ==
    LET q == x.n \div x.d
        r == x.n % x.d
        h == (100 * r) \div x.d
        rem == (100 * r) % x.d
        up == \/ 2 * rem > x.d
              \/ 2 * rem = x.d /\ h % 2 = 1
    IN  Rat(100 * q + h + (IF up THEN 1 ELSE 0), 100)

RECURSIVE RSum(_)
RSum(s) == IF s = <<>> THEN Zero ELSE RAdd(Head(s), RSum(Tail(s)))

\* min() and max() of a non-empty sequence of rationals
RECURSIVE RMin(_)
RMin(s) ==
    IF Len(s) = 1 THEN s[1]
    ELSE LET m == RMin(Tail(s)) IN IF RLt(m, s[1]) THEN m ELSE s[1]

RECURSIVE RMax(_)
RMax(s) ==
    IF Len(s) = 1 THEN s[1]
    ELSE LET m == RMax(Tail(s)) IN IF RLt(s[1], m) THEN m ELSE s[1]

\* ------------------------------------------------------------------------
\* Strings as sequences of characters
\* ------------------------------------------------------------------------

Digits == <<"0", "1", "2", "3", "4", "5", "6", "7", "8", "9">>

IsDigit(c) == \E i \in 1..10 : Digits[i] = c

DigitVal(c) == (CHOOSE i \in 1..10 : Digits[i] = c) - 1

IsSpace(c) == c = " "

\* str.lower() on the letters the price texts use
LowerChar(c) ==
    CASE c = "R" -> "r"
      [] c = "E" -> "e"
      [] c = "F" -> "f"
      [] c = "K" -> "k"
      [] c = "Y" -> "y"
      [] c = "S" -> "s"
      [] c = "X" -> "x"
      [] OTHER -> c

\* the character is left in place
KeepChar(s, ch) == s

\* str.replace(ch, "")
RECURSIVE RemoveChar(_, _)
RemoveChar(s, ch) ==
    IF s = <<>> THEN <<>>
    ELSE IF Head(s) = ch THEN RemoveChar(Tail(s), ch)
    ELSE <<Head(s)>> \o RemoveChar(Tail(s), ch)

Lower(s) == [i \in 1..Len(s) |-> LowerChar(s[i])]

RECURSIVE LStrip(_)
LStrip(s) == IF s # <<>> /\ IsSpace(Head(s)) THEN LStrip(Tail(s)) ELSE s

RECURSIVE RStrip(_)
RStrip(s) ==
    IF s # <<>> /\ IsSpace(s[Len(s)]) THEN RStrip(SubSeq(s, 1, Len(s) - 1)) ELSE s

Strip(s) == RStrip(LStrip(s))

\* str.split(): the maximal runs of non-space characters
RECURSIVE SplitFrom(_, _)
SplitFrom(s, cur) ==
    IF s = <<>> THEN (IF cur = <<>> THEN <<>> ELSE <<cur>>)
    ELSE IF IsSpace(Head(s))
         THEN (IF cur = <<>> THEN <<>> ELSE <<cur>>) \o SplitFrom(Tail(s), <<>>)
         ELSE SplitFrom(Tail(s), Append(cur, Head(s)))

Split(s) == SplitFrom(s, <<>>)

\* list.index(x): the first position of x, 1-based; x occurs in s
IndexOf(s, x) == CHOOSE i \in 1..Len(s) : s[i] = x /\ \A j \in 1..(i - 1) : s[j] # x

Contains(s, x) == \E i \in 1..Len(s) : s[i] = x

\* parts[i - 1] with Python's 0-based index i: position 0 wraps to the last
\* element.  k is the 1-based position of the unit token.
Before(parts, k) == IF k = 1 THEN parts[Len(parts)] ELSE parts[k - 1]

RECURSIVE DigitsVal(_, _)
DigitsVal(s, acc) ==
    IF s = <<>> THEN acc ELSE DigitsVal(Tail(s), 10 * acc + DigitVal(Head(s)))

RECURSIVE Pow10(_)
Pow10(k) == IF k = 0 THEN 1 ELSE 10 * Pow10(k - 1)

AllDigits(s) == \A i \in 1..Len(s) : IsDigit(s[i])

\* float(token) for an optionally signed decimal numeral; None stands for the
\* ValueError float() raises on anything else
ParseFloat(tok) ==
    LET neg == tok # <<>> /\ Head(tok) = "-"
        pos == tok # <<>> /\ Head(tok) = "+"
        body == IF neg \/ pos THEN Tail(tok) ELSE tok
        hasDot == Contains(body, ".")
        k == IF hasDot THEN IndexOf(body, ".") ELSE Len(body) + 1
        ip == SubSeq(body, 1, k - 1)
        fp == SubSeq(body, k + 1, Len(body))
        ok == AllDigits(ip) /\ AllDigits(fp) /\ Len(ip) + Len(fp) >= 1
        v == Rat(DigitsVal(ip \o fp, 0), Pow10(Len(fp)))
    IN  IF ~ok THEN None ELSE IF neg THEN RNeg(v) ELSE v

TokRef == <<"r", "e", "f">>
TokKey == <<"k", "e", "y">>
TokKeys == <<"k", "e", "y", "s">>

\* the default rate baked into the parser's combined form
ParserDefaultRate == 50

\* parse_price(text) -> [value, currency]; (None, None) is NoPrice
NoPrice == [value |-> None, currency |-> "None"]

parse_price(text) ==
    IF text = <<>> THEN NoPrice
    ELSE
    LET t1 == Strip(Lower(RemoveChar(text, "~")))
        t2 == RemoveChar(t1, ",")
        parts == Split(t2)
    IN  IF parts = <<>> THEN NoPrice
        ELSE IF Len(parts) = 2 /\ parts[2] \in {TokRef, TokKeys, TokKey}
        THEN LET v == ParseFloat(parts[1])
             IN  IF IsNone(v) THEN NoPrice
                 ELSE IF parts[2] = TokRef
                      THEN [value |-> v, currency |-> "ref"]
                      ELSE [value |-> v, currency |-> "keys"]
        ELSE IF Contains(parts, TokKey) \/ Contains(parts, TokKeys)
        THEN LET key_index == IF Contains(parts, TokKey)
                              THEN IndexOf(parts, TokKey)
                              ELSE IndexOf(parts, TokKeys)
                 keys_val == ParseFloat(Before(parts, key_index))
                 ref_val == IF Contains(parts, TokRef)
                            THEN ParseFloat(Before(parts, IndexOf(parts, TokRef)))
                            ELSE Zero
             IN  IF IsNone(keys_val) \/ IsNone(ref_val) THEN NoPrice
                 ELSE [value |-> RAdd(keys_val, RDiv(ref_val, Int2Rat(ParserDefaultRate))),
                       currency |-> "keys"]
        ELSE NoPrice

\* ------------------------------------------------------------------------
\* Currency conversion
\* ------------------------------------------------------------------------

\* _to_keys_if_possible(value, currency, key_price_ref) -> (keys_value, ok)
_to_keys_if_possible(value, currency, key_price_ref) ==
    IF currency = "keys" THEN [v |-> value, ok |-> TRUE]
    ELSE IF currency = "ref" /\ Truthy(key_price_ref)
         THEN [v |-> RDiv(value, key_price_ref), ok |-> TRUE]
         ELSE [v |-> None, ok |-> FALSE]

\* _to_ref(value, currency, key_price_ref) -> float, 0.0 when impossible
_to_ref(value, currency, key_price_ref) ==
    IF IsNone(value) \/ currency = "None" THEN Zero
    ELSE IF currency = "ref" THEN value
    ELSE IF currency \in {"key", "keys"} /\ Truthy(key_price_ref)
         THEN RMul(value, key_price_ref)
         ELSE Zero

\* the combined form "K key(s) R ref" of _parse_price_to_keys
CombinedToKeys(keys_val, ref_val, key_price_ref) ==
    IF IsNone(keys_val) \/ IsNone(ref_val) THEN None
    ELSE IF ~Truthy(key_price_ref) THEN keys_val
    ELSE RAdd(keys_val, RDiv(ref_val, key_price_ref))

\* backpack_classifieds._parse_price_to_keys(text, key_price_ref): the price
\* in keys, or None
PartsToKeys(parts, key_price_ref) ==
    IF parts = <<>> THEN None
    ELSE IF Len(parts) = 2 /\ parts[2] \in {TokRef, TokKeys, TokKey}
    THEN IF IsNone(ParseFloat(parts[1])) THEN None
         ELSE IF parts[2] = TokRef
              THEN (IF Truthy(key_price_ref)
                    THEN RDiv(ParseFloat(parts[1]), key_price_ref)
                    ELSE None)
              ELSE ParseFloat(parts[1])
    ELSE IF (Contains(parts, TokKey) \/ Contains(parts, TokKeys)) /\ Contains(parts, TokRef)
    THEN CombinedToKeys(
            ParseFloat(Before(parts, IF Contains(parts, TokKey)
                                     THEN IndexOf(parts, TokKey)
                                     ELSE IndexOf(parts, TokKeys))),
            ParseFloat(Before(parts, IndexOf(parts, TokRef))),
            key_price_ref)
    ELSE None

_parse_price_to_keys(text, key_price_ref) ==
    IF text = <<>> THEN None
    ELSE PartsToKeys(Split(RemoveChar(Strip(Lower(RemoveChar(text, "~"))), ",")),
                     key_price_ref)

\* ------------------------------------------------------------------------
\* Item names: sequences of words
\* ------------------------------------------------------------------------

\* str.lower() on the words of the item vocabulary
LowerWord(w) ==
    CASE w = "Strange" -> "strange"
      [] w = "Specialized" -> "specialized"
      [] w = "Professional" -> "professional"
      [] w = "Killstreak" -> "killstreak"
      [] w = "Australium" -> "australium"
      [] w = "Shotgun" -> "shotgun"
      [] w = "Axe" -> "axe"
      [] w = "Fire" -> "fire"
      [] OTHER -> w

LowerName(name) == [i \in 1..Len(name) |-> LowerWord(name[i])]

\* "<w1> <w2>" in name (consecutive words)
HasPhrase(name, w1, w2) ==
    \E i \in 1..(Len(name) - 1) : name[i] = w1 /\ name[i + 1] = w2

\* name.replace("<w> ", ""): every occurrence of the word followed by a space
RECURSIVE RemoveWord(_, _)
RemoveWord(name, w) ==
    IF Len(name) <= 1 THEN name
    ELSE IF Head(name) = w THEN RemoveWord(Tail(name), w)
    ELSE <<Head(name)>> \o RemoveWord(Tail(name), w)

\* name.replace("<w1> <w2> ", "")
RECURSIVE RemovePhrase(_, _, _)
RemovePhrase(name, w1, w2) ==
    IF Len(name) <= 2 THEN name
    ELSE IF name[1] = w1 /\ name[2] = w2
         THEN RemovePhrase(SubSeq(name, 3, Len(name)), w1, w2)
         ELSE <<Head(name)>> \o RemovePhrase(Tail(name), w1, w2)

\* ALIAS_BASE_NAMES
ALIAS_BASE_NAMES(lower_name) ==
    IF lower_name = <<"axe">> THEN <<"Fire", "Axe">> ELSE <<>>

\* the generic word is tested first
KillstreakTierBasicFirst(prof, spec, basic) ==
    IF basic THEN 1 ELSE IF prof THEN 3 ELSE IF spec THEN 2 ELSE 0

\* killstreak_tier: the if / elif chain over the three phrases
KillstreakTier(prof, spec, basic) ==
    IF prof THEN 3 ELSE IF spec THEN 2 ELSE IF basic THEN 1 ELSE 0

parse_item_attributes(item_name) ==
    LET item_lower == LowerName(item_name)
        is_strange == Len(item_lower) >= 2 /\ item_lower[1] = "strange"
        prof == HasPhrase(item_lower, "professional", "killstreak")
        spec == HasPhrase(item_lower, "specialized", "killstreak")
        basic == Contains(item_lower, "killstreak")
        killstreak_tier == KillstreakTier(prof, spec, basic)
        australium == Contains(item_lower, "australium")
        b1 == IF is_strange THEN RemoveWord(item_name, "Strange") ELSE item_name
        b2 == IF prof THEN RemovePhrase(b1, "Professional", "Killstreak")
              ELSE IF spec THEN RemovePhrase(b1, "Specialized", "Killstreak")
              ELSE IF basic THEN RemoveWord(b1, "Killstreak")
              ELSE b1
        b3 == IF australium THEN RemoveWord(b2, "Australium") ELSE b2
        alias == ALIAS_BASE_NAMES(LowerName(b3))
    IN  [quality |-> IF is_strange THEN 11 ELSE 6,
         killstreak_tier |-> killstreak_tier,
         australium |-> australium,
         base_name |-> IF alias # <<>> THEN alias ELSE b3]

\* KIT_COSTS_REF.get(kit): 48.5 and 124.0, None for an unknown kit
KIT_COSTS_REF(kit) ==
    CASE kit = "specialized" -> Rat(97, 2)
      [] kit = "professional" -> Int2Rat(124)
      [] OTHER -> None

\* _kit_item_name(base_item, kit_type), for the two kit types of the table
_kit_item_name(base_item, kit_type) ==
    LET base_clean == IF Len(base_item) >= 2 /\ LowerWord(base_item[1]) = "strange"
                      THEN Tail(base_item)
                      ELSE base_item
        kit_name == IF kit_type = "specialized"
                    THEN <<"Specialized", "Killstreak">>
                    ELSE <<"Professional", "Killstreak">>
    IN  <<"Strange">> \o kit_name \o base_clean

\* ------------------------------------------------------------------------
\* Configuration, program constants and the bounds of the model
\* ------------------------------------------------------------------------


\* self.max_retries
max_retries == 2

\* max_pages of the two BUY passes
max_pages == 5

\* the longest list of sell listings a SELL query is shown
MaxListings == 3

\* the longest list of listings one page of a BUY pass shows
MaxPageListings == 2

\* The price texts the listing source shows
T_10ref == <<"1", "0", " ", "r", "e", "f">>
T_60ref == <<"6", "0", " ", "r", "e", "f">>
T_2keys == <<"~", "2", " ", "K", "e", "y", "s">>
T_junk == <<"$", "5">>
T_50ref == <<"5", "0", " ", "r", "e", "f">>

PriceTexts == {T_10ref, T_60ref, T_2keys, T_junk}

\* the sell listings of the key itself
KeyPriceTexts == {T_50ref, T_junk}

SeqsUpTo(S, n) == UNION {[1..k -> S] : k \in 0..n}

Listings == SeqsUpTo(PriceTexts, MaxListings)

PageListings == SeqsUpTo(PriceTexts, MaxPageListings)

KeyListings == SeqsUpTo(KeyPriceTexts, MaxPageListings)

\* parse_price on the texts of the model, evaluated once
Parsed == [t \in PriceTexts \cup KeyPriceTexts |-> parse_price(t)]

\* the item names of the model
N_Shotgun == <<"Shotgun">>
N_StrangeShotgun == <<"Strange", "Shotgun">>
N_KsShotgun == <<"Killstreak", "Shotgun">>

\* the exceptions a page load can raise, and what the handler's own page
\* operations do: kind "closed" satisfies _is_closed_error
Failures == [kind : {"closed", "other"}, new_page_ok : BOOLEAN, alt_goto_ok : BOOLEAN]

\* ------------------------------------------------------------------------
\* The aggregation of fetch_prices
\* ------------------------------------------------------------------------

NONE_RESULT == [value |-> Zero, currency |-> "unknown", source |-> "None"]

\* prices[:1]
FirstOf(prices) == IF prices = <<>> THEN <<>> ELSE <<prices[1]>>

\* the texts the SELL policy reads
SelectTexts(prices, mode) ==
    IF mode = "first" THEN FirstOf(prices)
    ELSE IF mode = "avg23" /\ Len(prices) >= 3 THEN SubSeq(prices, 2, 3)
    ELSE FirstOf(prices)

\* the parsed prices of the texts that parse, in order
IfParsed(p) == IF IsNone(p.value) THEN <<>> ELSE <<p>>

RECURSIVE ParsedValues(_)
ParsedValues(texts) ==
    IF texts = <<>> THEN <<>>
    ELSE IfParsed(Parsed[Head(texts)]) \o ParsedValues(Tail(texts))

\* values / currency / avg_value / rounded_value of the SELL branch;
\* ok = FALSE is the branch that raises
MeanOf(ps) ==
    IF ps = <<>> THEN [ok |-> FALSE, value |-> None, currency |-> "None"]
    ELSE [ok |-> TRUE,
          value |-> Round2(RDiv(RSum([i \in 1..Len(ps) |-> ps[i].value]),
                                Int2Rat(Len(ps)))),
          currency |-> ps[1].currency]

SellAggregate(prices, mode) == MeanOf(ParsedValues(SelectTexts(prices, mode)))

\* the prices of a page converted to keys, those that parse and convert
IfConverted(p, k) == IF IsNone(p.value) \/ ~k.ok THEN <<>> ELSE <<k.v>>

InKeys(p, rate) == IfConverted(p, _to_keys_if_possible(p.value, p.currency, rate))

RECURSIVE KeysValues(_, _)
KeysValues(texts, rate) ==
    IF texts = <<>> THEN <<>>
    ELSE InKeys(Parsed[Head(texts)], rate) \o KeysValues(Tail(texts), rate)

\* page_min of one page of PASS 1
PageMin(ks) == IF ks = <<>> THEN None ELSE RMin(ks)

\* global_min_sell after a page
MinSell(global_min_sell, page_min) ==
    IF IsNone(page_min) THEN global_min_sell
    ELSE IF IsNone(global_min_sell) \/ RLt(page_min, global_min_sell) THEN page_min
    ELSE global_min_sell

\* a buy price at the minimum sell price passes
VerifiedOrEqual(keys_val, global_min_sell) == RLe(keys_val, global_min_sell)

\* the test of PASS 2 on one converted buy price
Verified(keys_val, global_min_sell) == RLt(keys_val, global_min_sell)

\* candidates of one page of PASS 2
Candidates(ks, global_min_sell) ==
    SelectSeq(ks, LAMBDA k : Verified(k, global_min_sell))

\* the prices of the nodes that _parse_price_to_keys converts, in order
RECURSIVE NodeKeys(_, _)
NodeKeys(texts, key_price_ref) ==
    IF texts = <<>> THEN <<>>
    ELSE (IF IsNone(_parse_price_to_keys(Head(texts), key_price_ref)) THEN <<>>
          ELSE <<_parse_price_to_keys(Head(texts), key_price_ref)>>)
         \o NodeKeys(Tail(texts), key_price_ref)

\* (min_sell_keys, verified_buy_keys) from the converted sell and buy prices
MinSellAndVerifiedBuy(sell_values_keys, buy_keys) ==
    IF sell_values_keys = <<>> THEN [min_sell |-> None, verified_buy |-> None]
    ELSE [min_sell |-> RMin(sell_values_keys),
          verified_buy |->
            IF Candidates(buy_keys, RMin(sell_values_keys)) = <<>> THEN None
            ELSE RMax(Candidates(buy_keys, RMin(sell_values_keys)))]

\* BackpackClassifiedsHTML.get_min_sell_and_verified_buy on a fetched page
get_min_sell_and_verified_buy(sell_nodes, buy_nodes, key_price_ref) ==
    MinSellAndVerifiedBuy(NodeKeys(sell_nodes, key_price_ref),
                          NodeKeys(buy_nodes, key_price_ref))

\* _detect_key_price_ref on the sell listings of the key page
DetectRate(texts) ==
    LET ps == SelectSeq(ParsedValues(texts), LAMBDA p : p.currency = "ref")
    IN  IF ps = <<>> THEN None ELSE RMin([i \in 1..Len(ps) |-> ps[i].value])

\* ------------------------------------------------------------------------
\* State
\* ------------------------------------------------------------------------

VARIABLES
    KEY_PRICE_REF,          \* config.KEY_PRICE_REF
    price_mode,             \* self.price_mode
    runtime_key_price_ref,  \* self.runtime_key_price_ref
    cached_sell,            \* self.cached_sell
    fp,                     \* the frame of the running fetch_prices call
    an,                     \* the frame of _analyze_upgrades_for_items
    bc,                     \* the frame of get_min_sell_and_verified_buy
    fn,                     \* the frame of a call of a module-level function
    su,                     \* the frame of search_upgrade (tf2-arbitrage-upgrade)
    queries                 \* history: the item queries sent to the listing source

vars == <<KEY_PRICE_REF, price_mode, runtime_key_price_ref, cached_sell, fp, an, bc, fn, su,
          queries>>

\* dict[key] = value
Put(f, k, v) == [y \in DOMAIN f \cup {k} |-> IF y = k THEN v ELSE f[y]]

EmptyDict == [y \in {} |-> None]

\* history of the attempt the last step ended, if it ended one: the index of
\* its item (idx), how
\* it ended (end), the minimum of the convertible sell prices it was shown
\* (min), the buy price it selected (sel), whether the page it selected it on
\* showed a convertible buy price not below that minimum (rej), the highest
\* convertible buy price its last page displayed when PASS 1 found no sell
\* price (buys), and of the prices a SELL attempt was shown: the first one
\* if it parses (head), and the first and the mean of the 2nd and 3rd of
\* those that parse (first, avg23), and the currencies of the prices the
\* SELL policy averaged (curs), and whether the handler waited
\* delays["retry"] before the next attempt (slept), and the highest
\* convertible buy price the pages of PASS 1 displayed (shown)
NoObs ==
    [idx |-> 0, end |-> "none", min |-> None, sel |-> None, rej |-> FALSE, buys |-> None,
     head |-> None, first |-> None, avg23 |-> None, curs |-> {}, slept |-> FALSE,
     shown |-> None]

\* a fetch_prices call on entry
Call(items, intent) ==
    [items |-> items, intent |-> intent, idx |-> 1, retry |-> 0,
     results |-> EmptyDict,
     stage |-> IF items = <<>> THEN "returned" ELSE "start",
     page_num |-> 0, global_min_sell |-> None, prev_sell_count |-> 0,
     seen_min |-> None, seen_buy |-> None, exhausted |-> {}, obs |-> NoObs]

IdleCall == [Call(<<>>, "sell") EXCEPT !.stage = "idle"]

Cur == fp.items[fp.idx]

Attrs == parse_item_attributes(Cur)

\* effective_key_ref = KEY_PRICE_REF or self.runtime_key_price_ref
effective_key_ref == Or(KEY_PRICE_REF, runtime_key_price_ref)

\* the local state of one attempt, as the retry loop body starts it
FreshAttempt(f) ==
    [f EXCEPT !.stage = "start", !.page_num = 0, !.global_min_sell = None,
              !.prev_sell_count = 0, !.seen_min = None, !.seen_buy = None]

\* the item loop moves on: the next item, or the return of the call
NextItem(f) ==
    IF f.idx < Len(f.items)
    THEN [FreshAttempt(f) EXCEPT !.idx = @ + 1, !.retry = 0]
    ELSE [FreshAttempt(f) EXCEPT !.stage = "returned"]

\* `continue` in the retry loop
NextTry(f) ==
    IF f.retry < max_retries
    THEN [FreshAttempt(f) EXCEPT !.retry = @ + 1]
    ELSE NextItem(f)

\* the except clause of the retry loop, e the exception and the outcome of
\* the handler's own page operations
Handler(f, e) ==
    IF e.kind = "closed" /\ e.new_page_ok THEN NextTry(f)
    ELSE IF f.retry < max_retries THEN NextTry([f EXCEPT !.obs.slept = TRUE])
    ELSE IF e.alt_goto_ok
         THEN NextItem([f EXCEPT !.exhausted = @ \cup {f.idx}])
         ELSE NextItem([f EXCEPT !.exhausted = @ \cup {f.idx},
                                 !.results = Put(@, f.items[f.idx], NONE_RESULT)])

Ended(obs, end) == [obs EXCEPT !.end = end, !.idx = fp.idx]

Raised(obs) == Ended(obs, "raised")

LogQuery ==
    queries' = queries \cup {[base |-> an.bi, item |-> Cur, intent |-> fp.intent]}

\* what the claims about the SELL policies say of a list of prices
FirstParseable(ps) == IF ps = <<>> THEN None ELSE ps[1].value

MeanSecondThird(ps) ==
    IF Len(ps) >= 3 THEN RDiv(RAdd(ps[2].value, ps[3].value), Int2Rat(2))
    ELSE FirstParseable(ps)

ObsOf(ps) == [NoObs EXCEPT !.first = FirstParseable(ps), !.avg23 = MeanSecondThird(ps)]

\* the currencies of a list of parsed prices
CurrenciesOf(ps) == {ps[i].currency : i \in 1..Len(ps)}

SellObs(prices) ==
    [ObsOf(ParsedValues(prices)) EXCEPT
        !.head = Parsed[prices[1]].value,
        !.curs = CurrenciesOf(ParsedValues(SelectTexts(prices, price_mode)))]

\* ------------------------------------------------------------------------
\* fetch_prices, one action per page load
\* ------------------------------------------------------------------------

\* the page load raises
PageFails ==
    \E e \in Failures :
        /\ fp' = Handler([fp EXCEPT !.obs = Raised(NoObs)], e)
        /\ UNCHANGED <<su, KEY_PRICE_REF, fn, bc, price_mode, runtime_key_price_ref, cached_sell, an>>

\* the policy branch shared by the stats and the classifieds SELL paths
SellPolicy(prices, source) ==
    \E a \in {SellAggregate(prices, price_mode)}, obs \in {SellObs(prices)} :
        IF a.ok
        THEN /\ fp' = NextItem([fp EXCEPT
                        !.results = Put(@, Cur, [value |-> a.value,
                                                 currency |-> a.currency,
                                                 source |-> source]),
                        !.obs = Ended(obs, "sell")])
             /\ cached_sell' = Put(cached_sell, Cur, a.value)
             /\ UNCHANGED <<su, KEY_PRICE_REF, fn, bc, price_mode, runtime_key_price_ref, an>>
        ELSE \E e \in Failures :
                /\ e.kind = "other" /\ e.new_page_ok
                /\ fp' = Handler([fp EXCEPT !.obs = Raised(obs)], e)
                /\ UNCHANGED <<su, KEY_PRICE_REF, fn, bc, price_mode, runtime_key_price_ref, cached_sell, an>>

\* SELL of an item with a killstreak tier or australium: the classifieds page
SellClassifieds ==
    /\ fp.stage = "start" /\ fp.intent = "sell"
    /\ Attrs.killstreak_tier > 0 \/ Attrs.australium
    /\ LogQuery
    /\ \/ PageFails
       \/ \E prices \in Listings \ {<<>>} : SellPolicy(prices, "ClassifiedsSell")

\* SELL of a plain item: the stats page
SellStats ==
    /\ fp.stage = "start" /\ fp.intent = "sell"
    /\ ~(Attrs.killstreak_tier > 0 \/ Attrs.australium)
    /\ LogQuery
    /\ \/ PageFails
       \/ \E prices \in Listings \ {<<>>} : SellPolicy(prices, "SELLOrders")
       \/ /\ fp' = [fp EXCEPT !.stage = "fallback", !.obs = NoObs]
          /\ UNCHANGED <<su, KEY_PRICE_REF, fn, bc, price_mode, runtime_key_price_ref, cached_sell, an>>

\* the stats page says the item does not exist: the classifieds page instead
SellFallback ==
    /\ fp.stage = "fallback"
    /\ LogQuery
    /\ \/ PageFails
       \/ /\ fp' = NextItem([fp EXCEPT !.results = Put(@, Cur, NONE_RESULT),
                                       !.obs = Ended(NoObs, "fb_none")])
          /\ UNCHANGED <<su, KEY_PRICE_REF, fn, bc, price_mode, runtime_key_price_ref, cached_sell, an>>
       \/ \E prices \in Listings \ {<<>>}, div_item \in BOOLEAN :
            \E p \in {Parsed[prices[1]]} :
                IF ~IsNone(p.value)
                THEN /\ div_item
                     /\ fp' = NextItem([fp EXCEPT
                                !.results = Put(@, Cur, [value |-> Round2(p.value),
                                                         currency |-> p.currency,
                                                         source |-> "ClassifiedsSellFB"]),
                                !.obs = Ended(SellObs(prices), "fb")])
                     /\ UNCHANGED <<su, KEY_PRICE_REF, fn, bc, price_mode, runtime_key_price_ref, cached_sell, an>>
                ELSE IF div_item
                     THEN SellPolicy(prices, "SELLOrders")
                     ELSE \E e \in Failures :
                            /\ fp' = Handler([fp EXCEPT !.obs = Raised(SellObs(prices))], e)
                            /\ UNCHANGED <<su, KEY_PRICE_REF, fn, bc, price_mode, runtime_key_price_ref,
                                           cached_sell, an>>

\* BUY with no rate known: _detect_key_price_ref on the key's stats page
BuyDetect ==
    /\ fp.stage = "start" /\ fp.intent = "buy"
    /\ ~Truthy(effective_key_ref)
    /\ \E texts \in KeyListings :
        /\ runtime_key_price_ref' = DetectRate(texts)
        /\ fp' = [fp EXCEPT !.stage = "p1", !.page_num = 1, !.obs = NoObs]
    /\ UNCHANGED <<su, KEY_PRICE_REF, fn, bc, price_mode, cached_sell, an, queries>>

\* the NONE result is not recorded when PASS 1 finds no sell price
AfterPass1Unrecorded(f, global_min_sell, obs) ==
    IF IsNone(global_min_sell)
    THEN NextTry([f EXCEPT !.obs = Ended([obs EXCEPT !.min = f.seen_min], "no_sell")])
    ELSE [f EXCEPT !.stage = "p2", !.page_num = 1, !.global_min_sell = global_min_sell,
                   !.obs = NoObs]

\* the end of PASS 1
AfterPass1(f, global_min_sell, obs) ==
    IF IsNone(global_min_sell)
    THEN NextTry([f EXCEPT !.results = Put(@, f.items[f.idx], NONE_RESULT),
                           !.obs = Ended([obs EXCEPT !.min = f.seen_min], "no_sell")])
    ELSE [f EXCEPT !.stage = "p2", !.page_num = 1, !.global_min_sell = global_min_sell,
                   !.obs = NoObs]

\* history: the buy listings of a page of PASS 1, which reads none of them;
\* the highest one stands for them
TopBuy == {<<>>} \cup {<<t>> : t \in PriceTexts}

\* history: the highest of the convertible buy prices a page displays
BuysShown(ks) == IF ks = <<>> THEN NoObs ELSE [NoObs EXCEPT !.buys = RMax(ks)]

\* page_num of the page PASS 1 is loading
PageNum == IF fp.stage = "start" THEN 1 ELSE fp.page_num

\* PASS 1 ends with this page: it shows no more sell listings than the page
\* before, or it is page max_pages
LastPage(sells) == Len(sells) <= fp.prev_sell_count \/ PageNum = max_pages

\* history: the least of the convertible sell prices PASS 1 has been shown
SeenMin(seen_min, ks) ==
    IF ks = <<>> THEN seen_min
    ELSE IF IsNone(seen_min) THEN RMin(ks)
    ELSE RMin(<<seen_min>> \o ks)

\* history: the highest of the convertible buy prices PASS 1 has been shown
SeenBuy(seen_buy, ks) ==
    IF ks = <<>> THEN seen_buy
    ELSE IF IsNone(seen_buy) THEN RMax(ks)
    ELSE RMax(<<seen_buy>> \o ks)

\* history: the buy listings of a page of PASS 1 are recorded on every page
\* of a call that run() makes itself, and else on the last page of an
\* attempt that finds no sell price
BuysOfPage(g, sells) ==
    IF an.phase = "none" \/ (IsNone(g) /\ LastPage(sells)) THEN TopBuy ELSE {<<>>}

\* one page of PASS 1: the minimum sell price, in keys
BuyPass1 ==
    /\ fp.intent = "buy"
    /\ \/ fp.stage = "p1"
       \/ fp.stage = "start" /\ Truthy(effective_key_ref)
    /\ LogQuery
    /\ \/ PageFails
       \/ \E sells \in PageListings :
            \E ks \in {KeysValues(sells, effective_key_ref)} :
            \E g \in {MinSell(fp.global_min_sell, PageMin(ks))} :
            \E buys \in BuysOfPage(g, sells) :
            \E bs \in {KeysValues(buys, effective_key_ref)} :
            \E f \in {[fp EXCEPT !.seen_min = SeenMin(@, ks),
                                 !.seen_buy = SeenBuy(@, bs)]} :
                /\ fp' = IF LastPage(sells)
                         THEN AfterPass1(f, g, BuysShown(bs))
                         ELSE [f EXCEPT !.stage = "p1", !.page_num = PageNum + 1,
                                        !.global_min_sell = g,
                                        !.prev_sell_count = Len(sells),
                                        !.obs = NoObs]
                /\ UNCHANGED <<su, KEY_PRICE_REF, fn, bc, price_mode, runtime_key_price_ref, cached_sell, an>>

\* one page of PASS 2: the highest buy price below the minimum sell price
BuyPass2 ==
    /\ fp.stage = "p2"
    /\ LogQuery
    /\ \/ PageFails
       \/ \E buys \in PageListings :
            \E ks \in {KeysValues(buys, effective_key_ref)} :
            \E c \in {Candidates(ks, fp.global_min_sell)},
               obs \in {[NoObs EXCEPT !.min = fp.seen_min, !.shown = fp.seen_buy]} :
                /\ fp' = IF c # <<>>
                         THEN NextItem([fp EXCEPT
                                !.results = Put(@, Cur, [value |-> Round2(RMax(c)),
                                                         currency |-> "keys",
                                                         source |-> "ClassifiedsVerified"]),
                                !.obs = Ended([obs EXCEPT !.sel = RMax(c),
                                                         !.rej = Len(c) < Len(ks)],
                                              "verified")])
                         ELSE IF fp.page_num < max_pages
                         THEN [fp EXCEPT !.page_num = @ + 1, !.obs = NoObs]
                         ELSE NextItem([fp EXCEPT
                                !.results = Put(@, Cur, NONE_RESULT),
                                !.obs = Ended(obs, "no_buy")])
                /\ UNCHANGED <<su, KEY_PRICE_REF, fn, bc, price_mode, runtime_key_price_ref, cached_sell, an>>

\* get_min_sell_and_verified_buy: _fetch returns the page or None
GetMinSellAndVerifiedBuy ==
    /\ bc.stage = "call"
    /\ \E html \in BOOLEAN, sell_nodes \in PageListings, buy_nodes \in PageListings :
        bc' = [stage |-> "returned", key_price_ref |-> bc.key_price_ref,
               html |-> html, sell_nodes |-> sell_nodes, buy_nodes |-> buy_nodes,
               result |-> IF html
                          THEN get_min_sell_and_verified_buy(sell_nodes, buy_nodes,
                                                             bc.key_price_ref)
                          ELSE [min_sell |-> None, verified_buy |-> None]]
    /\ UNCHANGED <<su, KEY_PRICE_REF, fn, price_mode, runtime_key_price_ref, cached_sell, fp, an,
                 queries>>

FetchStep ==
    \/ SellClassifieds
    \/ SellStats
    \/ SellFallback
    \/ BuyDetect
    \/ BuyPass1
    \/ BuyPass2

\* ------------------------------------------------------------------------
\* run() calling fetch_prices on the configured items
\* ------------------------------------------------------------------------

PriceModes == {"first", "avg23"}

FetchItemLists == {<<N_Shotgun>>, <<N_KsShotgun>>, <<N_Shotgun, N_KsShotgun>>}

NoAnalysis == [phase |-> "none", bi |-> 0]

\* the rates a caller knows: none, or the one the key page shows
KeyRates == {None, DetectRate(<<T_50ref>>)}

NoClassifieds == [stage |-> "idle"]

\* search_upgrade is not running
NoSearch == [stage |-> "idle"]

\* no module-level function is being called
NoCall == [op |-> "none", stage |-> "idle"]

ClassifiedsCall(key_price_ref) == [stage |-> "call", key_price_ref |-> key_price_ref]

InitFetch ==
    /\ KEY_PRICE_REF = None
    /\ price_mode \in PriceModes
    /\ runtime_key_price_ref = None
    /\ cached_sell = EmptyDict
    /\ \/ /\ \E items \in FetchItemLists, intent \in {"sell", "buy"} :
                fp = Call(items, intent)
          /\ bc = NoClassifieds
       \/ /\ fp = IdleCall
          /\ \E key_price_ref \in KeyRates : bc = ClassifiedsCall(key_price_ref)
    /\ an = NoAnalysis
    /\ fn = NoCall
    /\ su = NoSearch
    /\ queries = {}

NextFetch ==
    \/ FetchStep
    \/ GetMinSellAndVerifiedBuy

SpecFetch == InitFetch /\ [][NextFetch]_vars

\* ------------------------------------------------------------------------
\* run(): the main loop, fetch_prices on sell_items and then on buy_items
\* ------------------------------------------------------------------------

MainLoop == [phase |-> "main", bi |-> 0]

\* the configurations: sell_items and buy_items are the same one item
RunItemLists == {<<N_Shotgun>>, <<N_KsShotgun>>}

InitRun ==
    /\ KEY_PRICE_REF = None
    /\ price_mode \in PriceModes
    /\ runtime_key_price_ref = None
    /\ cached_sell = EmptyDict
    /\ \E sell_items \in RunItemLists : fp = Call(sell_items, "sell")
    /\ bc = NoClassifieds
    /\ an = MainLoop
    /\ fn = NoCall
    /\ su = NoSearch
    /\ queries = {}

\* results["buy"] = await self.fetch_prices(page, self.buy_items, "buy")
RunBuyItems ==
    /\ an.phase = "main"
    /\ fp.stage = "returned" /\ fp.intent = "sell"
    /\ fp' = Call(fp.items, "buy")
    /\ UNCHANGED <<su, KEY_PRICE_REF, fn, bc, price_mode, runtime_key_price_ref, cached_sell, an, queries>>

NextRun ==
    \/ FetchStep
    \/ RunBuyItems

SpecRun == InitRun /\ [][NextRun]_vars

\* ------------------------------------------------------------------------
\* _analyze_upgrades_for_items, called by run()
\* ------------------------------------------------------------------------

\* run(): key_ref = self.runtime_key_price_ref or 52.0
DefaultKeyRef == 52

\* dict.get(key, {}) of a fetch_prices result, then .get("value") and
\* .get("currency")
NoEntry == [value |-> None, currency |-> "None", source |-> "None"]

Get(results, item) == IF item \in DOMAIN results THEN results[item] ELSE NoEntry

\* no base item is skipped
NeverSkipsBase(sell_ref) == FALSE

\* `if sell_ref <= 0: continue`
SkipsBase(sell_ref) == RLe(sell_ref, Zero)

\* `if not kit_cost: continue`
SkipsKit(kit) == ~Truthy(KIT_COSTS_REF(kit))

\* the result dict of the try body, from its locals
Result(base_item, kit, sell, kit_cost, upgraded_name, buy, key_price_ref, total_cost, profit_ref) ==
    [base_item |-> base_item,
     kit_type |-> kit,
     sell |-> [sell EXCEPT !.ref = Round2(@)],
     kit_cost_ref |-> kit_cost,
     upgraded_item |-> upgraded_name,
     buy |-> [buy EXCEPT !.ref = Round2(@)],
     total_cost_ref |-> Round2(total_cost),
     break_even |-> [ref |-> Round2(total_cost),
                     keys |-> IF Truthy(key_price_ref)
                              THEN Round2(RDiv(total_cost, key_price_ref))
                              ELSE None],
     profit |-> [ref |-> Round2(profit_ref),
                 percent |-> IF RLt(Zero, total_cost)
                             THEN Round2(RMul(RDiv(profit_ref, total_cost),
                                              Int2Rat(100)))
                             ELSE Zero,
                 is_profitable |-> RLt(Zero, profit_ref)],
     reason |-> IF RLe(buy.ref, Zero) THEN "no_verified_buy_below_min_sell"
                ELSE "None"]

\* the kit cost is left out of the profit
WithTotalNoKit(base_item, kit, sell, kit_cost, upgraded_name, buy, key_price_ref, total_cost) ==
    Result(base_item, kit, sell, kit_cost, upgraded_name, buy, key_price_ref,
           total_cost, RSub(buy.ref, sell.ref))

\* total_cost = sell_ref + kit_cost, profit_ref = buy_ref - total_cost
WithTotal(base_item, kit, sell, kit_cost, upgraded_name, buy, key_price_ref, total_cost) ==
    Result(base_item, kit, sell, kit_cost, upgraded_name, buy, key_price_ref,
           total_cost, RSub(buy.ref, total_cost))

\* the try body after fetch_prices has returned buy_data
Evaluate(a, buy_entry) ==
    WithTotal(a.base_items[a.bi], a.kit_types[a.ki], a.sell,
              KIT_COSTS_REF(a.kit_types[a.ki]),
              _kit_item_name(a.base_items[a.bi], a.kit_types[a.ki]),
              [value |-> buy_entry.value, currency |-> buy_entry.currency,
               ref |-> _to_ref(buy_entry.value, buy_entry.currency,
                               Or(a.key_price_ref, KEY_PRICE_REF))],
              a.key_price_ref,
              RAdd(a.sell.ref, KIT_COSTS_REF(a.kit_types[a.ki])))

NoSell == [value |-> None, currency |-> "None", ref |-> Zero]

\* the frame of a call of _analyze_upgrades_for_items; sell_refs and failed
\* are history: sell_ref of each base item evaluated so far, and the
\* fetches that ran out of attempts on exceptions, <<b, 0>> the SELL fetch of
\* base item b and <<b, k>> the BUY fetch of its kit k
Analysis(base_items, kit_types) ==
    [phase |-> "run", base_items |-> base_items, kit_types |-> kit_types,
     key_price_ref |-> None, bi |-> 0, ki |-> 0, results |-> <<>>,
     sell |-> NoSell, sell_refs |-> EmptyDict, failed |-> {}]

\* `for base_item in base_items` from index b on: the SELL fetch of the
\* next base item, or `return results`
BaseLoop(a, b) ==
    IF b > Len(a.base_items)
    THEN [an |-> [a EXCEPT !.phase = "returned"], fp |-> IdleCall]
    ELSE [an |-> [a EXCEPT !.phase = "sell", !.bi = b, !.ki = 0, !.sell = NoSell],
          fp |-> Call(<<a.base_items[b]>>, "sell")]

\* `for kit in kit_types` from index k on: the BUY fetch of the next kit with
\* a cost, or the next base item
RECURSIVE KitLoop(_, _)
KitLoop(a, k) ==
    IF k > Len(a.kit_types) THEN BaseLoop(a, a.bi + 1)
    ELSE IF SkipsKit(a.kit_types[k]) THEN KitLoop(a, k + 1)
    ELSE [an |-> [a EXCEPT !.phase = "buy", !.ki = k],
          fp |-> Call(<<_kit_item_name(a.base_items[a.bi], a.kit_types[k])>>, "buy")]

\* sell_value, sell_currency and sell_ref from sell_data
SellOf(entry, key_price_ref) ==
    [value |-> entry.value, currency |-> entry.currency,
     ref |-> _to_ref(entry.value, entry.currency, Or(key_price_ref, KEY_PRICE_REF))]

\* the base item loop once sell_ref is known
AfterSell(a) ==
    IF SkipsBase(a.sell.ref) THEN BaseLoop(a, a.bi + 1) ELSE KitLoop(a, 1)

\* run(): the rate is detected if none is known, key_ref defaults to 52.0,
\* and _analyze_upgrades_for_items starts on the upgrade items
RunUpgrade ==
    /\ an.phase = "run"
    /\ \E texts \in KeyListings :
        \E rate \in {IF Truthy(runtime_key_price_ref) THEN runtime_key_price_ref
                     ELSE DetectRate(texts)} :
        \E nx \in {BaseLoop([an EXCEPT !.key_price_ref = Or(rate, Int2Rat(DefaultKeyRef))],
                            1)} :
            /\ runtime_key_price_ref' = rate
            /\ an' = nx.an
            /\ fp' = nx.fp
    /\ UNCHANGED <<su, KEY_PRICE_REF, fn, bc, price_mode, cached_sell, queries>>

\* fetch_prices([base_item], "sell") returns to the analyzer
AnalyzeSellReturn ==
    /\ an.phase = "sell" /\ fp.stage = "returned"
    /\ \E sell \in {SellOf(Get(fp.results, an.base_items[an.bi]), an.key_price_ref)} :
        \E nx \in {AfterSell([an EXCEPT
                        !.sell = sell,
                        !.sell_refs = Put(@, an.bi, sell.ref),
                        !.failed = IF fp.exhausted = {} THEN @
                                   ELSE @ \cup {<<an.bi, 0>>}])} :
            /\ an' = nx.an
            /\ fp' = nx.fp
    /\ UNCHANGED <<su, KEY_PRICE_REF, fn, bc, price_mode, runtime_key_price_ref, cached_sell, queries>>

\* fetch_prices([upgraded_name], "buy") returns to the analyzer
AnalyzeBuyReturn ==
    /\ an.phase = "buy" /\ fp.stage = "returned"
    /\ \E nx \in {KitLoop([an EXCEPT
                            !.results = Append(@, Evaluate(an, Get(fp.results,
                                            _kit_item_name(an.base_items[an.bi],
                                                           an.kit_types[an.ki])))),
                            !.failed = IF fp.exhausted = {} THEN @
                                       ELSE @ \cup {<<an.bi, an.ki>>}],
                          an.ki + 1)} :
            /\ an' = nx.an
            /\ fp' = nx.fp
    /\ UNCHANGED <<su, KEY_PRICE_REF, fn, bc, price_mode, runtime_key_price_ref, cached_sell, queries>>

\* the upgrade items and the kit types run() hands to the analyzer
Upgrades ==
    {[base_items |-> <<>>, kit_types |-> <<"specialized", "professional">>],
     [base_items |-> <<N_Shotgun>>, kit_types |-> <<"specialized", "professional">>],
     [base_items |-> <<N_KsShotgun>>, kit_types |-> <<"specialized">>]}

\* price_mode is the default of __init__
Init ==
    /\ KEY_PRICE_REF = None
    /\ price_mode = "avg23"
    /\ runtime_key_price_ref = None
    /\ cached_sell = EmptyDict
    /\ fp = IdleCall
    /\ bc = NoClassifieds
    /\ \E u \in Upgrades : an = Analysis(u.base_items, u.kit_types)
    /\ fn = NoCall
    /\ su = NoSearch
    /\ queries = {}

Next ==
    \/ RunUpgrade
    \/ AnalyzeSellReturn
    \/ AnalyzeBuyReturn
    \/ FetchStep

Spec == Init /\ [][Next]_vars

\* the values of config.KEY_PRICE_REF: None, or a rate ("например 60.0")
ConfiguredRates == {None, Int2Rat(60)}

\* run() under either configuration
InitCfg ==
    /\ KEY_PRICE_REF \in ConfiguredRates
    /\ price_mode = "avg23"
    /\ runtime_key_price_ref = None
    /\ cached_sell = EmptyDict
    /\ fp = IdleCall
    /\ bc = NoClassifieds
    /\ \E u \in Upgrades : an = Analysis(u.base_items, u.kit_types)
    /\ fn = NoCall
    /\ su = NoSearch
    /\ queries = {}

SpecCfg == InitCfg /\ [][Next]_vars

\* ------------------------------------------------------------------------
\* The module-level functions, each called on its own
\* ------------------------------------------------------------------------

\* numerals and the amounts they denote
Numerals ==
    {[text |-> <<"5">>, value |-> Int2Rat(5)],
     [text |-> <<"0">>, value |-> Zero],
     [text |-> <<"4", "0", ".", "1", "1">>, value |-> Rat(4011, 100)],
     [text |-> <<"1", ",", "2", "3", "4">>, value |-> Int2Rat(1234)]}

\* unit words and the currency they name
Units ==
    {[text |-> <<"r", "e", "f">>, currency |-> "ref"],
     [text |-> <<"R", "E", "F">>, currency |-> "ref"],
     [text |-> <<"k", "e", "y">>, currency |-> "keys"],
     [text |-> <<"k", "e", "y", "s">>, currency |-> "keys"],
     [text |-> <<"K", "e", "y", "s">>, currency |-> "keys"]}

\* a price text together with what it is: shape "single" is "X <unit>" with
\* amount X, "signed" the same with a sign, "combined" is
\* "K <key unit>, R ref", "badnum" has a unit and a numeric token that is
\* no numeral, "none" is none of these
Text(text, shape, amount, currency) ==
    [text |-> text, shape |-> shape, amount |-> amount, currency |-> currency]

\* "X <unit>", with or without the approximation marker and outer spaces
SingleTexts ==
    {Text(pre \o n.text \o <<" ">> \o u.text \o post, "single", n.value, u.currency) :
        pre \in {<<>>, <<"~">>, <<" ">>}, post \in {<<>>, <<" ">>},
        n \in Numerals, u \in Units}

OtherTexts ==
    {Text(<<>>, "none", None, "None"),
     Text(<<" ", " ", " ">>, "none", None, "None"),
     Text(<<"$", "5">>, "none", None, "None"),
     Text(<<"5">>, "none", None, "None"),
     Text(<<"r", "e", "f">>, "none", None, "None"),
     Text(<<"5", " ", "g", "o", "l", "d">>, "none", None, "None"),
     Text(<<"k", "e", "y", " ", "5">>, "none", None, "None"),
     Text(<<"x", " ", "r", "e", "f">>, "badnum", None, "None"),
     Text(<<"1", ".", "2", ".", "3", " ", "k", "e", "y", "s">>, "badnum", None, "None"),
     Text(<<"-", "5", " ", "r", "e", "f">>, "signed", Int2Rat(-5), "ref"),
     Text(<<"1", " ", "k", "e", "y", ",", " ", "6", ".", "1", "1", " ", "r", "e", "f">>,
          "combined", None, "keys")}

ParseInputs == SingleTexts \cup OtherTexts

\* a call of function op on arg, and its return
FnCall(op, arg) == [op |-> op, stage |-> "call", arg |-> arg]

FnReturn(ret) == [op |-> fn.op, stage |-> "returned", arg |-> fn.arg, ret |-> ret]

Calling(op) == fn.stage = "call" /\ fn.op = op

Returned(op) == fn.stage = "returned" /\ fn.op = op

FnUnchanged == UNCHANGED <<su, KEY_PRICE_REF, price_mode, runtime_key_price_ref, cached_sell, fp, an, bc, queries>>

ParsePrice ==
    /\ Calling("parse_price")
    /\ fn' = FnReturn(parse_price(fn.arg.t.text))
    /\ FnUnchanged

ParsePriceToKeys ==
    /\ Calling("_parse_price_to_keys")
    /\ fn' = FnReturn(_parse_price_to_keys(fn.arg.t.text, fn.arg.key_price_ref))
    /\ FnUnchanged

\* the values, currencies and rates the converters are called on
ConvValues == {None, Zero, Int2Rat(2), Int2Rat(10)}

ConvCurrencies == {"None", "ref", "key", "keys", "unknown"}

ConvInputs == [value : ConvValues, currency : ConvCurrencies, key_price_ref : KeyRates]

ToRef ==
    /\ Calling("_to_ref")
    /\ fn' = FnReturn(_to_ref(fn.arg.value, fn.arg.currency, fn.arg.key_price_ref))
    /\ FnUnchanged

\* the combined texts "K <key unit>, R ref", with their K (keys) and R (ref)
KeyCounts == {[text |-> <<"1">>, value |-> Int2Rat(1)], [text |-> <<"2">>, value |-> Int2Rat(2)]}

Remainders == {[text |-> <<"6">>, value |-> Int2Rat(6)], [text |-> <<"2", "5">>, value |-> Int2Rat(25)]}

CombinedTexts ==
    {[text |-> k.text \o <<" ">> \o u \o <<",", " ">> \o r.text \o <<" ">> \o TokRef,
      keys |-> k.value, ref |-> r.value] :
        k \in KeyCounts, u \in {TokKey, TokKeys}, r \in Remainders}

\* the rates in use: the discovered one, the default of run(), a configured one
RatesInUse == {DetectRate(<<T_50ref>>), Int2Rat(DefaultKeyRef)} \cup (ConfiguredRates \ {None})

\* a price text through parse_price and then _to_ref: fetch_prices parses
\* it, _analyze_upgrades_for_items converts what fetch_prices returns
PriceToRef ==
    /\ Calling("price_to_ref")
    /\ \E p \in {parse_price(fn.arg.t.text)} :
        fn' = FnReturn(_to_ref(p.value, p.currency, fn.arg.key_price_ref))
    /\ FnUnchanged

\* the callers pass a value that parsed
ToKeysIfPossible ==
    /\ Calling("_to_keys_if_possible")
    /\ fn' = FnReturn(_to_keys_if_possible(fn.arg.value, fn.arg.currency,
                                           fn.arg.key_price_ref))
    /\ FnUnchanged

\* the longest item name, in words
MaxWords == 4

\* the words of the item names
NameWords ==
    {"Strange", "strange", "Killstreak", "killstreak", "Specialized", "Professional",
     "professional", "Australium", "Shotgun", "Axe"}

ItemNames == SeqsUpTo(NameWords, MaxWords) \ {<<>>}

ParseItemAttributes ==
    /\ Calling("parse_item_attributes")
    /\ fn' = FnReturn(parse_item_attributes(fn.arg.item_name))
    /\ FnUnchanged

KitTypes == {"specialized", "professional"}

KitItemName ==
    /\ Calling("_kit_item_name")
    /\ fn' = FnReturn(_kit_item_name(fn.arg.base_item, fn.arg.kit_type))
    /\ FnUnchanged

\* the profit part of an evaluation record
Profit(ref, percent) ==
    [ref |-> Int2Rat(ref), percent |-> Int2Rat(percent), is_profitable |-> ref > 0]

\* evaluation records, by what the summary reads of them
Records ==
    {[base_item |-> "A", profit |-> Profit(12, 14)],
     [base_item |-> "B", profit |-> Profit(-8, -9)],
     [base_item |-> "C", profit |-> Profit(40, 45)],
     [base_item |-> "D", profit |-> Profit(12, 5)],
     [base_item |-> "E", profit |-> Profit(0, 0)]}

\* the longest list of evaluation records
MaxRecords == 3

RecordLists == SeqsUpTo(Records, MaxRecords)

\* [r for r in upgrade_results if r["profit"]["is_profitable"]]
Profitable(upgrade_results) ==
    SelectSeq(upgrade_results, LAMBDA r : r.profit.is_profitable)

\* the place of r in a list sorted by descending profit: behind the records
\* whose profit is not smaller, the order list.sort keeps among equal keys
RECURSIVE InsertByProfit(_, _)
InsertByProfit(sorted, r) ==
    IF sorted = <<>> THEN <<r>>
    ELSE IF RLt(Head(sorted).profit.ref, r.profit.ref) THEN <<r>> \o sorted
    ELSE <<Head(sorted)>> \o InsertByProfit(Tail(sorted), r)

\* list.sort(key=lambda r: r["profit"]["ref"], reverse=True)
RECURSIVE SortByProfit(_)
SortByProfit(rs) ==
    IF rs = <<>> THEN <<>>
    ELSE InsertByProfit(SortByProfit(SubSeq(rs, 1, Len(rs) - 1)), rs[Len(rs)])

\* run(): the summary of the profitable upgrades
RankProfitable ==
    /\ Calling("profitable")
    /\ fn' = FnReturn(SortByProfit(Profitable(fn.arg.upgrade_results)))
    /\ FnUnchanged

InitFn ==
    /\ KEY_PRICE_REF = None
    /\ su = NoSearch
    /\ price_mode = "avg23"
    /\ runtime_key_price_ref = None
    /\ cached_sell = EmptyDict
    /\ fp = IdleCall
    /\ bc = NoClassifieds
    /\ an = NoAnalysis
    /\ queries = {}
    /\ \/ \E t \in ParseInputs : fn = FnCall("parse_price", [t |-> t])
       \/ \E t \in ParseInputs, key_price_ref \in KeyRates :
            fn = FnCall("_parse_price_to_keys", [t |-> t, key_price_ref |-> key_price_ref])
       \/ \E c \in ConvInputs : fn = FnCall("_to_ref", c)
       \/ \E t \in CombinedTexts, key_price_ref \in RatesInUse :
            fn = FnCall("price_to_ref", [t |-> t, key_price_ref |-> key_price_ref])
       \/ \E c \in ConvInputs :
            /\ ~IsNone(c.value) /\ c.currency # "None"
            /\ fn = FnCall("_to_keys_if_possible", c)
       \/ \E item_name \in ItemNames :
            fn = FnCall("parse_item_attributes", [item_name |-> item_name])
       \/ \E base_item \in ItemNames, kit_type \in KitTypes :
            fn = FnCall("_kit_item_name", [base_item |-> base_item, kit_type |-> kit_type])
       \/ \E rs \in RecordLists : fn = FnCall("profitable", [upgrade_results |-> rs])

NextFn ==
    \/ ParsePrice
    \/ ParsePriceToKeys
    \/ ToRef
    \/ PriceToRef
    \/ ToKeysIfPossible
    \/ ParseItemAttributes
    \/ KitItemName
    \/ RankProfitable

SpecFn == InitFn /\ [][NextFn]_vars

\* ------------------------------------------------------------------------
\* tf2-arbitrage-upgrade: UpgradeArbitrage.search_upgrade and _check_item
\* ------------------------------------------------------------------------

\* config.KIT_COST_REF
KIT_COST_REF == 48

\* config.MIN_PROFIT_SCRAP
MIN_PROFIT_SCRAP == 9

\* config.MIN_ROI
MIN_ROI == Rat(5, 100)

\* asyncio.Semaphore(5)
SemaphoreValue == 5

\* the longest list of items
MaxItems == 6

\* an item and what the listing source answers for it: the sell price of
\* the item and the buy price of its killstreak version, None or 0.0, or an
\* exception
Weapon(name, sell, buy) ==
    [name |-> name, sell |-> sell, buy |-> buy, sell_raises |-> FALSE, buy_raises |-> FALSE]

Catalogue ==
    <<Weapon("Strange Rocket Launcher", Int2Rat(10), Int2Rat(70)),
      [Weapon("Strange Scattergun", None, None) EXCEPT !.sell_raises = TRUE],
      Weapon("Strange Sniper Rifle", Int2Rat(10), Rat(117, 2)),
      Weapon("Strange Wrench", Int2Rat(100), Int2Rat(152)),
      [Weapon("Strange Shotgun", Int2Rat(10), None) EXCEPT !.buy_raises = TRUE],
      Weapon("Strange Flame Thrower", Int2Rat(20), Int2Rat(90)),
      Weapon("Strange Minigun", None, None),
      Weapon("Strange Knife", Int2Rat(10), Zero)>>

\* config.WEAPONS: empty, the first n items of the catalogue, or the
\* longest list of one item of it
WeaponLists ==
    {[i \in 1..n |-> Catalogue[((i - 1) % Len(Catalogue)) + 1]] : n \in 0..MaxItems}
    \cup {[i \in 1..MaxItems |-> Catalogue[k]] : k \in 1..Len(Catalogue)}

\* the list search_upgrade checks when WEAPONS is empty
DefaultWeapons == [i \in 1..5 |-> Catalogue[i]]

\* the result None of a check
NoDeal == [item |-> "None", buy_price |-> None, upgraded_price |-> None, profit |-> None]

\* min_profit_ref = (MIN_PROFIT_SCRAP or 0) / 9.0
min_profit_ref == RDiv(Int2Rat(MIN_PROFIT_SCRAP), Int2Rat(9))

\* roi = (profit / upgraded_price) if upgraded_price else 0.0
Roi(profit, upgraded_price) ==
    IF Truthy(upgraded_price) THEN RDiv(profit, upgraded_price) ELSE Zero

\* the end of _check_item: the deal, or None
DealOf(name, buy_price, upgraded_price, profit) ==
    IF RLe(min_profit_ref, profit) /\ RLe(MIN_ROI, Roi(profit, upgraded_price))
    THEN [item |-> name, buy_price |-> buy_price, upgraded_price |-> upgraded_price,
          profit |-> profit]
    ELSE NoDeal

\* profit = buy_price - upgraded_price
WithProfit(name, buy_price, upgraded_price) ==
    DealOf(name, buy_price, upgraded_price, RSub(buy_price, upgraded_price))

\* upgraded_price = sell_price + KIT_COST_REF
WithUpgraded(name, sell_price, buy_price) ==
    WithProfit(name, buy_price, RAdd(sell_price, Int2Rat(KIT_COST_REF)))

\* search_upgrade on entry: a task per item, none has entered the semaphore
Search(items) ==
    [stage |-> "gather", items |-> items, value |-> SemaphoreValue,
     pc |-> [i \in 1..Len(items) |-> "new"],
     result |-> [i \in 1..Len(items) |-> NoDeal],
     checks |-> [i \in 1..Len(items) |-> 0],
     raised |-> {}, profitable_deals |-> <<>>]

\* the tasks inside `async with semaphore`
InFlight == {i \in 1..Len(su.items) : su.pc[i] \in {"sell", "buy"}}

\* a semaphore that never makes a task wait
AlwaysAcquire(value) == TRUE

\* Semaphore.acquire does not wait
CanAcquire(value) == value > 0

\* a slot that is not given back
NoRelease(value) == value

\* Semaphore.release, at the exit of `async with`
Release(value) == value + 1

\* _wrapped returns r for item i and leaves `async with semaphore`
Return(s, i, r) ==
    [s EXCEPT !.pc[i] = "done", !.result[i] = r, !.value = Release(@)]

\* except Exception: _wrapped returns None
Except(s, i) == Return([s EXCEPT !.raised = @ \cup {i}], i, NoDeal)

SearchUnchanged ==
    UNCHANGED <<KEY_PRICE_REF, price_mode, runtime_key_price_ref, cached_sell, fp, an, bc, fn,
                queries>>

\* async with semaphore: the tasks enter in the order gather started them,
\* and _check_item is called
Acquire ==
    /\ su.stage = "gather"
    /\ \E i \in 1..Len(su.items) :
        /\ su.pc[i] = "new"
        /\ \A j \in 1..(i - 1) : su.pc[j] # "new"
        /\ CanAcquire(su.value)
        /\ su' = [su EXCEPT !.value = @ - 1, !.pc[i] = "sell", !.checks[i] = @ + 1]
    /\ SearchUnchanged

\* sell_price = await self.bptf.get_sell_price(name)
GetSellPrice ==
    /\ su.stage = "gather"
    /\ \E i \in 1..Len(su.items) :
        /\ su.pc[i] = "sell"
        /\ \E w \in {su.items[i]} :
            su' = IF w.sell_raises THEN Except(su, i)
                  ELSE IF ~Truthy(w.sell) THEN Return(su, i, NoDeal)
                  ELSE [su EXCEPT !.pc[i] = "buy"]
    /\ SearchUnchanged

\* buy_price = await self.bptf.get_buy_price(f"Killstreak {name}")
GetBuyPrice ==
    /\ su.stage = "gather"
    /\ \E i \in 1..Len(su.items) :
        /\ su.pc[i] = "buy"
        /\ \E w \in {su.items[i]} :
            su' = IF w.buy_raises THEN Except(su, i)
                  ELSE IF ~Truthy(w.buy) THEN Return(su, i, NoDeal)
                  ELSE Return(su, i, WithUpgraded(w.name, w.sell, w.buy))
    /\ SearchUnchanged

\* results = await asyncio.gather(*tasks); the deals are the results
\* that are not None
Gather ==
    /\ su.stage = "gather"
    /\ \A i \in 1..Len(su.items) : su.pc[i] = "done"
    /\ su' = [su EXCEPT !.stage = "returned",
                        !.profitable_deals = SelectSeq(su.result, LAMBDA r : r # NoDeal)]
    /\ SearchUnchanged

InitSearch ==
    /\ KEY_PRICE_REF = None
    /\ price_mode = "avg23"
    /\ runtime_key_price_ref = None
    /\ cached_sell = EmptyDict
    /\ fp = IdleCall
    /\ bc = NoClassifieds
    /\ an = NoAnalysis
    /\ fn = NoCall
    /\ queries = {}
    /\ \E WEAPONS \in WeaponLists :
        su = Search(IF WEAPONS = <<>> THEN DefaultWeapons ELSE WEAPONS)

NextSearch ==
    \/ Acquire
    \/ GetSellPrice
    \/ GetBuyPrice
    \/ Gather

SpecSearch == InitSearch /\ [][NextSearch]_vars

\* the event loop runs a task that can run, and a lookup ends (the page
\* loads have timeouts)
SpecSearchLive == SpecSearch /\ WF_vars(NextSearch)

\* ------------------------------------------------------------------------
\* Properties of the analyzer, under Spec
\* ------------------------------------------------------------------------

\* sell_ref and buy_ref of a record, from the prices it reports
SellRefOf(r) == _to_ref(r.sell.value, r.sell.currency, Or(an.key_price_ref, KEY_PRICE_REF))

BuyRefOf(r) == _to_ref(r.buy.value, r.buy.currency, Or(an.key_price_ref, KEY_PRICE_REF))

\* the records of base item b with kit k
RecordsOf(b, k) ==
    {i \in 1..Len(an.results) :
        /\ an.results[i].base_item = an.base_items[b]
        /\ an.results[i].kit_type = an.kit_types[k]}

Pairs == (1..Len(an.base_items)) \X (1..Len(an.kit_types))

\* C1: when the analyzer has returned, every (base item, kit type) pair it
\* was handed has a record, and the record of a pair whose base sell price
\* did not resolve has is_profitable false and reason "no_base_sell".
C1_EveryPairHasRecord ==
    an.phase = "returned" =>
        \A p \in Pairs :
            \E i \in RecordsOf(p[1], p[2]) :
                SkipsBase(an.sell_refs[p[1]]) =>
                    /\ ~an.results[i].profit.is_profitable
                    /\ an.results[i].reason = "no_base_sell"

\* C2: a record whose upgraded buy price is absent or does not convert has
\* reason "no_verified_buy_below_min_sell", is_profitable false, and a
\* reported profit of minus the kit cost.
C2_NoBuyReportsMinusKitCost ==
    \A i \in 1..Len(an.results) :
        RLe(BuyRefOf(an.results[i]), Zero) =>
            /\ an.results[i].reason = "no_verified_buy_below_min_sell"
            /\ ~an.results[i].profit.is_profitable
            /\ an.results[i].profit.ref = RNeg(an.results[i].kit_cost_ref)

\* total cost and profit of a record, from the prices it reports
TotalOf(r) == RAdd(SellRefOf(r), r.kit_cost_ref)

ProfitOf(r) == RSub(BuyRefOf(r), TotalOf(r))

Resolved(r) == RLt(Zero, SellRefOf(r)) /\ RLt(Zero, BuyRefOf(r))

\* C3: in every record whose base sell and upgraded buy prices both resolve,
\* the total cost is sell + kit cost and the profit is buy - total cost,
\* both reported to two decimals; is_profitable holds exactly when the
\* profit is positive, that is when sell + kit cost < buy; the ROI is
\* profit / total cost * 100 to two decimals, 0 for a total cost of 0; and
\* the reason is absent.
C3_ResolvedArithmetic ==
    \A i \in 1..Len(an.results) :
        Resolved(an.results[i]) =>
            /\ an.results[i].total_cost_ref = Round2(TotalOf(an.results[i]))
            /\ an.results[i].profit.ref = Round2(ProfitOf(an.results[i]))
            /\ an.results[i].profit.is_profitable <=> RLt(Zero, ProfitOf(an.results[i]))
            /\ an.results[i].profit.is_profitable <=>
                    RLt(RAdd(SellRefOf(an.results[i]), KIT_COSTS_REF(an.results[i].kit_type)),
                        BuyRefOf(an.results[i]))
            /\ an.results[i].profit.percent =
                    IF TotalOf(an.results[i]) = Zero THEN Zero
                    ELSE Round2(RMul(RDiv(ProfitOf(an.results[i]), TotalOf(an.results[i])),
                                     Int2Rat(100)))
            /\ an.results[i].reason = "None"

\* a profitable record and a resolved, unprofitable one in the same output
C3_Witness ==
    \E i, j \in 1..Len(an.results) :
        /\ Resolved(an.results[i]) /\ an.results[i].profit.is_profitable
        /\ Resolved(an.results[j]) /\ ~an.results[j].profit.is_profitable

\* C4: every BUY query sent to the listing source is for a base item whose
\* sell price resolved to a positive amount in ref.
C4_NoBuyQueryWithoutBaseSell ==
    \A q \in queries :
        q.intent = "buy" =>
            /\ q.base \in DOMAIN an.sell_refs
            /\ RLt(Zero, an.sell_refs[q.base])

\* the analyzer has returned, and the sell price of a base item did not
\* resolve
C4_Witness ==
    /\ an.phase = "returned"
    /\ \E b \in DOMAIN an.sell_refs : RLe(an.sell_refs[b], Zero)

\* the records a failed fetch must leave: all kits of the base item for its
\* SELL fetch, the one pair for a BUY fetch
PairsOfFailure(f) ==
    IF f[2] = 0 THEN {p \in Pairs : p[1] = f[1]} ELSE {f}

\* C10: when the analyzer has returned, every pair whose evaluation met
\* exceptions on every attempt of a fetch has a record with is_profitable
\* false and a reason.
C10_FailedPairHasFailureRecord ==
    an.phase = "returned" =>
        \A f \in an.failed :
            \A p \in PairsOfFailure(f) :
                \E i \in RecordsOf(p[1], p[2]) :
                    /\ ~an.results[i].profit.is_profitable
                    /\ an.results[i].reason # "None"

\* ------------------------------------------------------------------------
\* Properties of fetch_prices and get_min_sell_and_verified_buy, under
\* SpecFetch
\* ------------------------------------------------------------------------

\* the item of the attempt the last step ended
ItemOfObs == fp.items[fp.obs.idx]

\* C5: the buy price a BUY attempt selects is strictly below the least
\* convertible sell price the attempt was shown, and it is the price
\* recorded, to two decimals; the verified buy price
\* get_min_sell_and_verified_buy returns is strictly below every
\* convertible sell price of the page.
C5_VerifiedBuyBelowMinSell ==
    /\ fp.obs.end = "verified" =>
        /\ ~IsNone(fp.obs.min)
        /\ RLt(fp.obs.sel, fp.obs.min)
        /\ fp.results[ItemOfObs].value = Round2(fp.obs.sel)
    /\ (bc.stage = "returned" /\ ~IsNone(bc.result.verified_buy)) =>
        \A i \in 1..Len(bc.sell_nodes) :
            ~IsNone(_parse_price_to_keys(bc.sell_nodes[i], bc.key_price_ref)) =>
                RLt(bc.result.verified_buy,
                    _parse_price_to_keys(bc.sell_nodes[i], bc.key_price_ref))

\* a buy price is selected on a page that also shows a convertible buy
\* price at or above the minimum sell price
C5_Witness == fp.obs.end = "verified" /\ fp.obs.rej

\* C6 as claimed: when PASS 1 finds no sell price and the page displays a
\* convertible buy price, the highest such price is recorded for the item.
C6_MinSellUnknownReturnsMaxBuy ==
    (fp.obs.end = "no_sell" /\ ~IsNone(fp.obs.buys)) =>
        /\ ItemOfObs \in DOMAIN fp.results
        /\ fp.results[ItemOfObs].value = Round2(fp.obs.buys)
        /\ fp.results[ItemOfObs].currency = "keys"

\* C6 amended: when no sell price parses and converts, no buy price is
\* eligible: the BUY attempt records the NONE result, and
\* get_min_sell_and_verified_buy returns (None, None).
C6_MinSellUnknownGivesNone ==
    /\ fp.obs.end = "no_sell" =>
        /\ ItemOfObs \in DOMAIN fp.results
        /\ fp.results[ItemOfObs] = NONE_RESULT
    /\ (bc.stage = "returned" /\ NodeKeys(bc.sell_nodes, bc.key_price_ref) = <<>>) =>
        bc.result = [min_sell |-> None, verified_buy |-> None]

\* PASS 1 finds no sell price on pages that display a convertible buy price
C6_Witness == fp.obs.end = "no_sell" /\ ~IsNone(fp.obs.buys)

\* C7: under avg23, a SELL attempt whose first listed price parses ends with
\* a price: the mean of the 2nd and 3rd of the prices that parse, in listed
\* order, when three parse, else the first listed price, which is what the
\* policy first gives.
C7_Avg23OverParseable ==
    (price_mode = "avg23" /\ fp.obs.end \in {"sell", "raised"} /\ ~IsNone(fp.obs.head)) =>
        /\ fp.obs.end = "sell"
        /\ fp.results[ItemOfObs].value = Round2(fp.obs.avg23)

\* C8: under first, a SELL attempt that is shown a price that parses ends
\* with the first price that parses, in listed order.
C8_FirstParseable ==
    (price_mode = "first" /\ fp.obs.end \in {"sell", "raised"} /\ ~IsNone(fp.obs.first)) =>
        /\ fp.obs.end = "sell"
        /\ fp.results[ItemOfObs].value = Round2(fp.obs.first)

\* C9: when fetch_prices has returned, the map has an entry for every item
\* requested, the NONE result for an item whose attempts all raised.
C9_EntryForEveryItem ==
    fp.stage = "returned" =>
        \A i \in 1..Len(fp.items) :
            /\ fp.items[i] \in DOMAIN fp.results
            /\ i \in fp.exhausted => fp.results[fp.items[i]] = NONE_RESULT

\* ------------------------------------------------------------------------
\* Properties of the module-level functions, under SpecFn
\* ------------------------------------------------------------------------

\* C11: parse_price returns (None, None), and _parse_price_to_keys None,
\* for the empty string, for a string of spaces, for a string that has none
\* of the three shapes, and for one whose numeric token is no numeral.
C11_UnrecognisedGivesUnknown ==
    /\ (Returned("parse_price") /\ fn.arg.t.shape \in {"none", "badnum"}) =>
            fn.ret = NoPrice
    /\ (Returned("_parse_price_to_keys") /\ fn.arg.t.shape \in {"none", "badnum"}) =>
            IsNone(fn.ret)

\* C12: for a text "X <unit>", with or without the approximation marker,
\* thousands separators and outer spaces, parse_price returns the amount X
\* with currency ref for the unit ref and keys for the units key and keys.
C12_SingleCurrencyExact ==
    (Returned("parse_price") /\ fn.arg.t.shape = "single") =>
        fn.ret = [value |-> fn.arg.t.amount, currency |-> fn.arg.t.currency]

\* a text with the approximation marker and a thousands separator has been
\* parsed
C12_Witness ==
    /\ Returned("parse_price") /\ fn.arg.t.shape = "single"
    /\ Contains(fn.arg.t.text, "~") /\ Contains(fn.arg.t.text, ",")
    /\ fn.ret.currency = "keys"

\* C13: a price parse_price returns with a currency has an amount that is
\* not negative.
C13_AmountNotNegative ==
    (Returned("parse_price") /\ fn.ret.currency # "None") => RLe(Zero, fn.ret.value)

\* C14: _to_ref of an amount in keys is amount * rate when a rate is given;
\* with no rate, or for the currency unknown, its outcome is no amount at
\* all, which tells it from an amount of zero in ref; and
\* _to_keys_if_possible of an amount in ref with no rate says it is not ok.
C14_UnconvertibleIsNotZero ==
    /\ (Returned("_to_ref") /\ ~IsNone(fn.arg.value)) =>
        /\ (fn.arg.currency \in {"key", "keys"} /\ Truthy(fn.arg.key_price_ref)) =>
                fn.ret = RMul(fn.arg.value, fn.arg.key_price_ref)
        /\ \/ fn.arg.currency \in {"key", "keys"} /\ IsNone(fn.arg.key_price_ref)
           \/ fn.arg.currency = "unknown"
           => IsNone(fn.ret)
    /\ (Returned("_to_keys_if_possible") /\ fn.arg.currency = "ref"
            /\ IsNone(fn.arg.key_price_ref)) =>
        ~fn.ret.ok

\* the words that name an item
ItemWords == {"Shotgun", "Axe"}

\* modifier words, in any order and letter case, and then the item's word
ProperName(name) ==
    /\ name[Len(name)] \in ItemWords
    /\ \A i \in 1..(Len(name) - 1) : name[i] \notin ItemWords

\* C15: classifying the base name of a classified item name gives that base
\* name again, for names with the modifier words in any order and letter
\* case before the item's word.
C15_ClassifierIdempotent ==
    (Returned("parse_item_attributes") /\ ProperName(fn.arg.item_name)) =>
        parse_item_attributes(fn.ret.base_name).base_name = fn.ret.base_name

\* the item name of the call, in lower case
ItemLower == LowerName(fn.arg.item_name)

\* the base name of the return, in lower case
BaseLower == LowerName(fn.ret.base_name)

\* C16: the base name of a name classified as Strange has no word strange,
\* that of a name with a killstreak tier no word killstreak, and that of an
\* australium name no word australium, in any letter case; the names are
\* modifier words followed by the item's word.
C16_BaseNameStripped ==
    (Returned("parse_item_attributes") /\ ProperName(fn.arg.item_name)) =>
        /\ fn.ret.quality = 11 => ~Contains(BaseLower, "strange")
        /\ fn.ret.killstreak_tier > 0 => ~Contains(BaseLower, "killstreak")
        /\ fn.ret.australium => ~Contains(BaseLower, "australium")

\* C17: a name with the phrase "professional killstreak" in any letter case
\* has tier 3; one with "specialized killstreak" and not the professional
\* phrase has tier 2; tier 1 is given only to a name with the word
\* killstreak and neither phrase.
C17_TierPriority ==
    Returned("parse_item_attributes") =>
        /\ HasPhrase(ItemLower, "professional", "killstreak") => fn.ret.killstreak_tier = 3
        /\ (HasPhrase(ItemLower, "specialized", "killstreak")
                /\ ~HasPhrase(ItemLower, "professional", "killstreak")) =>
            fn.ret.killstreak_tier = 2
        /\ fn.ret.killstreak_tier = 1 =>
            /\ Contains(ItemLower, "killstreak")
            /\ ~HasPhrase(ItemLower, "professional", "killstreak")
            /\ ~HasPhrase(ItemLower, "specialized", "killstreak")

\* a name with both phrases, the professional one in lower case, has been
\* classified
C17_Witness ==
    /\ Returned("parse_item_attributes")
    /\ HasPhrase(fn.arg.item_name, "professional", "killstreak")
    /\ HasPhrase(ItemLower, "specialized", "killstreak")
    /\ fn.ret.killstreak_tier = 3

\* the number of times a word occurs in a name, in any letter case
Occurrences(name, w) == Cardinality({i \in 1..Len(name) : LowerWord(name[i]) = w})

\* C18: the name _kit_item_name builds from modifier words followed by the
\* item's word is Strange, the phrase of the kit, and a rest; it has the
\* word Strange once and the word Killstreak, which every tier phrase ends
\* with, once.
C18_KitItemNameCanonical ==
    (Returned("_kit_item_name") /\ ProperName(fn.arg.base_item)) =>
        /\ Len(fn.ret) > 3
        /\ LowerName(SubSeq(fn.ret, 1, 3)) = <<"strange", fn.arg.kit_type, "killstreak">>
        /\ Occurrences(fn.ret, "strange") = 1
        /\ Occurrences(fn.ret, "killstreak") = 1

\* the number of times record r occurs in the list rs
CountOf(rs, r) == Cardinality({i \in 1..Len(rs) : rs[i] = r})

\* C19: the summary of run() lists exactly the records with is_profitable
\* true, by descending profit in ref, records of equal profit by descending
\* ROI.
C19_RankedByProfitThenRoi ==
    Returned("profitable") =>
        /\ \A r \in Records :
            CountOf(fn.ret, r) =
                IF r.profit.is_profitable THEN CountOf(fn.arg.upgrade_results, r) ELSE 0
        /\ \A i \in 1..(Len(fn.ret) - 1) :
            /\ RLe(fn.ret[i + 1].profit.ref, fn.ret[i].profit.ref)
            /\ fn.ret[i + 1].profit.ref = fn.ret[i].profit.ref =>
                RLe(fn.ret[i + 1].profit.percent, fn.ret[i].profit.percent)

\* ------------------------------------------------------------------------
\* Properties of run() without a rate, under Spec
\* ------------------------------------------------------------------------

\* C20: while no rate is configured and none has been discovered, a price
\* in keys of an evaluation record is not converted: its amount in ref is
\* the 0 of a price that does not convert.
C20_NoRateNoConversion ==
    (~Truthy(KEY_PRICE_REF) /\ ~Truthy(runtime_key_price_ref)) =>
        \A i \in 1..Len(an.results) :
            /\ an.results[i].sell.currency = "keys" => an.results[i].sell.ref = Zero
            /\ an.results[i].buy.currency = "keys" => an.results[i].buy.ref = Zero

\* ------------------------------------------------------------------------
\* Properties of the retry loop of fetch_prices, under SpecFetch
\* ------------------------------------------------------------------------

\* the ways an attempt ends with a result recorded and no exception
RecordedEnds == {"sell", "fb", "fb_none", "verified", "no_buy", "no_sell"}

\* C27: once an attempt for an item has ended by recording a result without
\* an exception, the NONE result of a BUY query that finds no usable sell
\* price included, the call is at a later item or has returned: the item is
\* not attempted again.
C27_RecordedResultEndsItem ==
    fp.obs.end \in RecordedEnds =>
        \/ fp.stage = "returned"
        \/ fp.idx > fp.obs.idx

\* ------------------------------------------------------------------------
\* Properties of the SELL aggregation, under SpecFetch
\* ------------------------------------------------------------------------

\* C29: the prices a SELL attempt averages into the value it records are all
\* in the currency it records.
C29_SellAverageOneCurrency ==
    fp.obs.end = "sell" =>
        fp.obs.curs \subseteq {fp.results[ItemOfObs].currency}

\* C26: no item is attempted more than max_retries + 1 times, and when an
\* attempt has failed and the item is attempted again, the handler has
\* waited the retry delay.
C26_BoundedRetriesWithDelay ==
    /\ fp.retry <= max_retries
    /\ (fp.obs.end = "raised" /\ fp.stage = "start" /\ fp.idx = fp.obs.idx /\ fp.retry > 0) =>
            fp.obs.slept

\* ------------------------------------------------------------------------
\* Properties of the BUY aggregation, under SpecFetch
\* ------------------------------------------------------------------------

\* C22: the buy price a BUY attempt selects is not below any convertible buy
\* price, itself below the minimum sell price, that a page the attempt
\* loaded displayed.
C22_MaxOverAllPages ==
    (fp.obs.end = "verified" /\ ~IsNone(fp.obs.shown) /\ RLt(fp.obs.shown, fp.obs.min)) =>
        RLe(fp.obs.shown, fp.obs.sel)

\* ------------------------------------------------------------------------
\* Properties of the main loop of run(), under SpecRun
\* ------------------------------------------------------------------------

\* C21: a step of a BUY evaluation of an item whose sell price is in
\* cached_sell, taken while the evaluation has yet to learn the minimum
\* sell price, sends no query to the listing source.
C21_CachedSellReused ==
    [][(fp.intent = "buy" /\ fp.stage \in {"start", "p1"} /\ Cur \in DOMAIN cached_sell)
            => queries' = queries]_vars

\* ------------------------------------------------------------------------
\* Properties of the rate of a run, under Spec
\* ------------------------------------------------------------------------

\* C28: while fetch_prices verifies buy listings for the upgrade evaluator
\* with a rate, that rate is the one the evaluator converts prices with.
C28_FilterAndEvaluatorSameRate ==
    (an.phase = "buy" /\ fp.intent = "buy" /\ fp.stage \in {"p1", "p2"}
        /\ Truthy(effective_key_ref)) =>
            effective_key_ref = Or(an.key_price_ref, KEY_PRICE_REF)

\* C23: a step changes runtime_key_price_ref only while neither a
\* configured nor a discovered rate is known; so a rate is discovered at
\* most once, and never when one is configured.
C23_DiscoveredOnceWhenNoRate ==
    [][runtime_key_price_ref' # runtime_key_price_ref => ~Truthy(effective_key_ref)]_vars

\* ------------------------------------------------------------------------
\* Properties of a combined price, under SpecFn
\* ------------------------------------------------------------------------

\* C30: the amount in ref of a combined price "K key(s), R ref" that was
\* parsed and then converted with the rate r is K * r + R.
C30_CombinedPriceInRef ==
    Returned("price_to_ref") =>
        fn.ret = RAdd(RMul(fn.arg.t.keys, fn.arg.key_price_ref), fn.arg.t.ref)

\* ------------------------------------------------------------------------
\* Properties of search_upgrade, under SpecSearch and SpecSearchLive
\* ------------------------------------------------------------------------

Qualifies(w) ==
    /\ ~w.sell_raises /\ Truthy(w.sell)
    /\ ~w.buy_raises /\ Truthy(w.buy)
    /\ RLe(Int2Rat(1), RSub(w.buy, RAdd(w.sell, Int2Rat(48))))
    /\ RLe(RAdd(w.sell, Int2Rat(48)),
           RMul(Int2Rat(20), RSub(w.buy, RAdd(w.sell, Int2Rat(48)))))

\* the names of a list of items, and of a list of deals
NamesOf(ws) == [i \in 1..Len(ws) |-> ws[i].name]

DealNames(ds) == [i \in 1..Len(ds) |-> ds[i].item]

====
